---- MODULE Spec2Model ----
(***************************************************************************)
(* TDMA frame timing budget: the slot-timing model (calculate_slot_width,  *)
(* calculate_frame_time), the cut-point partition sampler                  *)
(* (random_partition) and the Monte Carlo loop of run(), as written in     *)
(* firmware/tests/sync_timing_stress.py.                                   *)
(*                                                                         *)
(* Python integers are unbounded, so no arithmetic here is reduced modulo  *)
(* a word size; the only 16-bit limit in the code is the explicit          *)
(* saturation at 0xFFFF.                                                   *)
(***************************************************************************)
EXTENDS Integers, Sequences, FiniteSets

(***************************************************************************)
(* Timing constants (sync_timing_stress.py lines 5-33).                    *)
(***************************************************************************)
TDMA_FRAME_PERIOD_MS == 20
TDMA_FRAME_PERIOD_US == TDMA_FRAME_PERIOD_MS * 1000
TDMA_BEACON_DURATION_US == 500
TDMA_FIRST_SLOT_GAP_US == 500
TDMA_GUARD_TIME_US == 2000
TDMA_SLOT_MIN_WIDTH_US == 2500
TDMA_SENSOR_DATA_SIZE == 25
TDMA_DATA_HEADER_SIZE == 8
TDMA_SAMPLES_PER_FRAME == 4
FIXED_OVERHEAD_US == 1500
INTER_SLOT_GAP_US == 100
OFDM_PREAMBLE_US == 20
OFDM_N_DBPS == 24
OFDM_SYMBOL_US == 4
OFDM_SIFS_US == 10
OFDM_ACK_US == 44
FRAME_OVERHEAD_BYTES == 38
MAX_NODES == 8
MAX_TOTAL_SENSORS == 16
\* 0xFFFF, the literal of the saturation test in calculate_slot_width.
SLOT_WIDTH_MAX == 65535
\* The literal 326 of the ofdm_bits line ("22 + 8*38" in its comment).
OFDM_FIXED_BITS == 326

(***************************************************************************)
(* Bounds of the model.                                                    *)
(***************************************************************************)
\* Largest sensor count handed to calculate_slot_width on its own; the
\* result saturates at 0xFFFF from 480 sensors on.
MaxSensorCount == 490
\* Longest sensor_counts sequence and largest element handed to
\* calculate_frame_time on its own.
MaxFrameNodes == 3
MaxFrameSensors == 8
\* Largest total handed to random_partition on its own.
MaxPartitionTotal == 7
\* Trials per (total, nodes) pair in run(): the loop bound
\* RANDOM_DISTRIBUTIONS, 1000 in the source, reduced for model checking.
RANDOM_DISTRIBUTIONS == 2

VARIABLES
    \* calculate_slot_width called on its own
    sensor_count,       \* the argument
    slot_width,         \* the value returned (0 until slot_pc = "return")
    slot_pc,            \* "call" | "return"
    \* calculate_frame_time called on its own
    sensor_counts,      \* the argument (a sequence)
    frame_time,         \* the value returned for sensor_counts (0 until called)
    prev_frame_time,    \* the value returned for the argument before last_op
    last_op,            \* "none" | "call" | "grow" | "append"
    \* random_partition called on its own
    part_total,         \* argument total
    parts,              \* argument parts
    counts,             \* the list returned
    part_pc,            \* "call" | "return" | "ValueError"
    \* run()
    pc,                 \* "trials" | "report" | "done"
    total,              \* outer loop variable
    nodes,              \* inner loop variable
    trial,              \* iterations of the trial loop completed for the pair
    ok_count,
    frame_sum,
    frame_max,
    frame_us,           \* frame time of the latest trial
    results,            \* the rows appended so far
    trial_frames        \* history: frame_us of each trial of the current pair

slotVars == <<sensor_count, slot_width, slot_pc>>
frameVars == <<sensor_counts, frame_time, prev_frame_time, last_op>>
partVars == <<part_total, parts, counts, part_pc>>
runVars == <<pc, total, nodes, trial, ok_count, frame_sum, frame_max,
             frame_us, results, trial_frames>>
vars == <<slotVars, frameVars, partVars, runVars>>

(***************************************************************************)
(* calculate_slot_width (lines 46-71).                                     *)
(***************************************************************************)
\* lines 50-54
payload_bytes(n) ==
    TDMA_DATA_HEADER_SIZE + (TDMA_SAMPLES_PER_FRAME * n * TDMA_SENSOR_DATA_SIZE) + 1

\* line 58
ofdm_bits(payload) == OFDM_FIXED_BITS + 8 * payload

\* Mutant: the symbol count rounded down.
ofdm_syms_floor(bits) == bits \div OFDM_N_DBPS

\* line 59: ceiling division as the code writes it
ofdm_syms(bits) == (bits + OFDM_N_DBPS - 1) \div OFDM_N_DBPS

\* Mutant: the acknowledgment exchange left out of the airtime.
airtime_us_no_ack(syms) == OFDM_PREAMBLE_US + OFDM_SYMBOL_US * syms

\* lines 60-61
airtime_us(syms) ==
    LET data_frame_us == OFDM_PREAMBLE_US + OFDM_SYMBOL_US * syms
    IN  data_frame_us + OFDM_SIFS_US + OFDM_ACK_US

\* Mutant: the upper saturation left out.
clamp_no_saturation(total_us) ==
    IF total_us < TDMA_SLOT_MIN_WIDTH_US THEN TDMA_SLOT_MIN_WIDTH_US ELSE total_us

\* Mutant: truncation to 16 bits instead of saturation.
clamp_wraparound(total_us) ==
    IF total_us < TDMA_SLOT_MIN_WIDTH_US THEN TDMA_SLOT_MIN_WIDTH_US
    ELSE total_us % (SLOT_WIDTH_MAX + 1)

\* lines 65-69: the two clamps, in the code's order
clamp_total_us(total_us) ==
    LET raised == IF total_us < TDMA_SLOT_MIN_WIDTH_US
                  THEN TDMA_SLOT_MIN_WIDTH_US ELSE total_us
    IN  IF raised > SLOT_WIDTH_MAX THEN SLOT_WIDTH_MAX ELSE raised

calculate_slot_width(n) ==
    IF n <= 0 THEN 0
    ELSE clamp_total_us(FIXED_OVERHEAD_US
                        + airtime_us(ofdm_syms(ofdm_bits(payload_bytes(n)))))

(***************************************************************************)
(* calculate_frame_time (lines 74-86).                                     *)
(***************************************************************************)
RECURSIVE total_slot_time(_)
\* line 78: sum(calculate_slot_width(s) for s in sensor_counts)
total_slot_time(s) ==
    IF s = <<>> THEN 0
    ELSE calculate_slot_width(Head(s)) + total_slot_time(Tail(s))

\* Mutant: one inter-slot gap per node instead of one between nodes.
frame_time_gap_per_node(s) ==
    IF s = <<>> THEN TDMA_BEACON_DURATION_US
    ELSE TDMA_BEACON_DURATION_US + TDMA_FIRST_SLOT_GAP_US + total_slot_time(s)
         + Len(s) * INTER_SLOT_GAP_US + TDMA_GUARD_TIME_US

\* Mutant: the inter-slot gaps subtracted instead of added.
frame_time_gap_subtracted(s) ==
    IF s = <<>> THEN TDMA_BEACON_DURATION_US
    ELSE TDMA_BEACON_DURATION_US + TDMA_FIRST_SLOT_GAP_US + total_slot_time(s)
         - (Len(s) - 1) * INTER_SLOT_GAP_US + TDMA_GUARD_TIME_US

\* Mutant: the end-of-frame guard time left out.
frame_time_no_guard(s) ==
    IF s = <<>> THEN TDMA_BEACON_DURATION_US
    ELSE TDMA_BEACON_DURATION_US + TDMA_FIRST_SLOT_GAP_US + total_slot_time(s)
         + (Len(s) - 1) * INTER_SLOT_GAP_US

calculate_frame_time(s) ==
    IF s = <<>> THEN TDMA_BEACON_DURATION_US
    ELSE TDMA_BEACON_DURATION_US + TDMA_FIRST_SLOT_GAP_US + total_slot_time(s)
         + (Len(s) - 1) * INTER_SLOT_GAP_US + TDMA_GUARD_TIME_US

(***************************************************************************)
(* random_partition (lines 89-97).  random.sample(population, k) returns k  *)
(* distinct elements of the population in an arbitrary order and raises    *)
(* ValueError when k is negative or exceeds the population; sorted() then  *)
(* fixes the order, so a sample is modelled as the set it draws.           *)
(***************************************************************************)
\* Mutant: the population starting at 0, range(total) for range(1, total).
population_from_zero(t) == 0..(t - 1)

\* line 90: range(1, total)
population(t) == 1..(t - 1)

RECURSIVE samples(_, _)
\* line 90: every set random.sample(S, k) can draw, 0 <= k
samples(S, k) ==
    IF k = 0 THEN {{}}
    ELSE IF Cardinality(S) < k THEN {}
    ELSE LET x == CHOOSE y \in S : TRUE
         IN  samples(S \ {x}, k) \cup {T \cup {x} : T \in samples(S \ {x}, k - 1)}

\* line 90: random.sample raises ValueError for these requests
sample_raises(t, p) == p - 1 < 0 \/ p - 1 > Cardinality(population(t))

RECURSIVE sorted(_)
\* line 90: sorted(), ascending
sorted(S) ==
    IF S = {} THEN <<>>
    ELSE LET m == CHOOSE x \in S : \A y \in S : x <= y
         IN  <<m>> \o sorted(S \ {m})

RECURSIVE cut_differences(_, _, _)
\* lines 91-96: the loop over cuts and the final append
cut_differences(cuts, prev, t) ==
    IF cuts = <<>> THEN <<t - prev>>
    ELSE <<Head(cuts) - prev>> \o cut_differences(Tail(cuts), Head(cuts), t)

\* lines 90-97 for one drawn sample
random_partition(t, sample) == cut_differences(sorted(sample), 0, t)

(***************************************************************************)
(* run() (lines 108-138): the accumulation of one trial and the bounds of  *)
(* the two outer loops.                                                    *)
(***************************************************************************)
Min(a, b) == IF a <= b THEN a ELSE b
Max(a, b) == IF a >= b THEN a ELSE b

\* Mutant: the node loop bounded by MAX_NODES alone.
node_limit_unguarded(t) == MAX_NODES

\* line 112: range(1, min(MAX_NODES, total) + 1)
node_limit(t) == Min(MAX_NODES, t)

\* Mutant: frame_max overwritten by the latest frame time.
accumulate_last_frame(acc, f) ==
    [ok_count  |-> IF f <= TDMA_FRAME_PERIOD_US THEN acc.ok_count + 1 ELSE acc.ok_count,
     frame_sum |-> acc.frame_sum + f,
     frame_max |-> f]

\* lines 120-123
accumulate(acc, f) ==
    [ok_count  |-> IF f <= TDMA_FRAME_PERIOD_US THEN acc.ok_count + 1 ELSE acc.ok_count,
     frame_sum |-> acc.frame_sum + f,
     frame_max |-> Max(acc.frame_max, f)]

\* lines 113-115
fresh_accumulators == [ok_count |-> 0, frame_sum |-> 0, frame_max |-> 0]

(***************************************************************************)
(* Initial values of each group of variables, and the groups at rest.      *)
(***************************************************************************)
SlotIdle == sensor_count = 0 /\ slot_width = 0 /\ slot_pc = "idle"
FrameIdle == sensor_counts = <<>> /\ frame_time = 0 /\ prev_frame_time = 0
             /\ last_op = "idle"
PartIdle == part_total = 0 /\ parts = 0 /\ counts = <<>> /\ part_pc = "idle"
RunIdle == /\ pc = "idle" /\ total = 0 /\ nodes = 0 /\ trial = 0
           /\ ok_count = 0 /\ frame_sum = 0 /\ frame_max = 0 /\ frame_us = 0
           /\ results = <<>> /\ trial_frames = <<>>

(***************************************************************************)
(* calculate_slot_width on every sensor count of 0..MaxSensorCount.        *)
(***************************************************************************)
SlotInit ==
    /\ sensor_count \in 0..MaxSensorCount
    /\ slot_width = 0
    /\ slot_pc = "call"
    /\ FrameIdle /\ PartIdle /\ RunIdle

CallSlotWidth ==
    /\ slot_pc = "call"
    /\ slot_width' = calculate_slot_width(sensor_count)
    /\ slot_pc' = "return"
    /\ UNCHANGED <<sensor_count, frameVars, partVars, runVars>>

SlotNext == CallSlotWidth
SpecSlot == SlotInit /\ [][SlotNext]_vars

(***************************************************************************)
(* calculate_frame_time on sequences of at most MaxFrameNodes counts in    *)
(* 0..MaxFrameSensors: called, then called again after one element grew by *)
(* one or one node was appended.                                           *)
(***************************************************************************)
RECURSIVE seqs_upto(_, _)
seqs_upto(S, n) ==
    IF n = 0 THEN {<<>>}
    ELSE LET shorter == seqs_upto(S, n - 1)
         IN  shorter \cup {Append(q, x) : q \in shorter, x \in S}

FrameInit ==
    /\ sensor_counts \in seqs_upto(0..MaxFrameSensors, MaxFrameNodes)
    /\ frame_time = 0
    /\ prev_frame_time = 0
    /\ last_op = "none"
    /\ SlotIdle /\ PartIdle /\ RunIdle

CallFrameTime ==
    /\ last_op = "none"
    /\ frame_time' = calculate_frame_time(sensor_counts)
    /\ last_op' = "call"
    /\ UNCHANGED <<sensor_counts, prev_frame_time, slotVars, partVars, runVars>>

GrowElement ==
    /\ last_op # "none"
    /\ \E i \in 1..Len(sensor_counts) :
        /\ sensor_counts[i] < MaxFrameSensors
        /\ sensor_counts' = [sensor_counts EXCEPT ![i] = @ + 1]
    /\ prev_frame_time' = frame_time
    /\ frame_time' = calculate_frame_time(sensor_counts')
    /\ last_op' = "grow"
    /\ UNCHANGED <<slotVars, partVars, runVars>>

AppendNode ==
    /\ last_op # "none"
    /\ Len(sensor_counts) < MaxFrameNodes
    /\ \E n \in 0..MaxFrameSensors : sensor_counts' = Append(sensor_counts, n)
    /\ prev_frame_time' = frame_time
    /\ frame_time' = calculate_frame_time(sensor_counts')
    /\ last_op' = "append"
    /\ UNCHANGED <<slotVars, partVars, runVars>>

FrameNext == CallFrameTime \/ GrowElement \/ AppendNode
SpecFrame == FrameInit /\ [][FrameNext]_vars

(***************************************************************************)
(* random_partition on every request with total and parts in               *)
(* 0..MaxPartitionTotal.                                                   *)
(***************************************************************************)
PartInit ==
    /\ part_total \in 0..MaxPartitionTotal
    /\ parts \in 0..MaxPartitionTotal
    /\ counts = <<>>
    /\ part_pc = "call"
    /\ SlotIdle /\ FrameIdle /\ RunIdle

CallRandomPartition ==
    /\ part_pc = "call"
    /\ ~sample_raises(part_total, parts)
    /\ \E sample \in samples(population(part_total), parts - 1) :
        counts' = random_partition(part_total, sample)
    /\ part_pc' = "return"
    /\ UNCHANGED <<part_total, parts, slotVars, frameVars, runVars>>

RandomPartitionRaises ==
    /\ part_pc = "call"
    /\ sample_raises(part_total, parts)
    /\ part_pc' = "ValueError"
    /\ UNCHANGED <<part_total, parts, counts, slotVars, frameVars, runVars>>

PartNext == CallRandomPartition \/ RandomPartitionRaises
SpecPart == PartInit /\ [][PartNext]_vars

(***************************************************************************)
(* run(): one step per trial of the innermost loop, one step for the       *)
(* aggregation of a pair together with the advance of the two outer loops, *)
(* and one for the report.  A row of results keeps total_sensors,          *)
(* node_count and schedule_ok_rate, the rate as its numerator ok_count     *)
(* over RANDOM_DISTRIBUTIONS; avg_frame_us and max_frame_us are frame_sum  *)
(* over RANDOM_DISTRIBUTIONS and frame_max of the state the row is built   *)
(* from, the one with trial = RANDOM_DISTRIBUTIONS.                        *)
(***************************************************************************)
RunInit ==
    /\ pc = "trials"
    /\ total = 1
    /\ nodes = 1
    /\ trial = 0
    /\ ok_count = fresh_accumulators.ok_count
    /\ frame_sum = fresh_accumulators.frame_sum
    /\ frame_max = fresh_accumulators.frame_max
    /\ frame_us = 0
    /\ results = <<>>
    /\ trial_frames = <<>>
    /\ SlotIdle /\ FrameIdle /\ PartIdle

\* lines 117-123: one iteration of the trial loop
Trial ==
    /\ pc = "trials"
    /\ trial < RANDOM_DISTRIBUTIONS
    /\ \E sample \in samples(population(total), nodes - 1) :
        LET f   == calculate_frame_time(random_partition(total, sample))
            acc == accumulate([ok_count |-> ok_count, frame_sum |-> frame_sum,
                               frame_max |-> frame_max], f)
        IN  /\ frame_us' = f
            /\ ok_count' = acc.ok_count
            /\ frame_sum' = acc.frame_sum
            /\ frame_max' = acc.frame_max
            /\ trial_frames' = Append(trial_frames, f)
    /\ trial' = trial + 1
    /\ UNCHANGED <<pc, total, nodes, results, slotVars, frameVars, partVars>>

\* lines 125-138, then the next iteration of the loops of lines 111-115
Aggregate ==
    /\ pc = "trials"
    /\ trial = RANDOM_DISTRIBUTIONS
    /\ results' = Append(results, [total_sensors |-> total, node_count |-> nodes,
                                   schedule_ok |-> ok_count])
    /\ IF nodes < node_limit(total)
         THEN /\ nodes' = nodes + 1
              /\ UNCHANGED <<total, pc>>
         ELSE IF total < MAX_TOTAL_SENSORS
         THEN /\ total' = total + 1
              /\ nodes' = 1
              /\ UNCHANGED pc
         ELSE /\ pc' = "report"
              /\ UNCHANGED <<total, nodes>>
    /\ IF pc' = "trials"
         THEN /\ ok_count' = fresh_accumulators.ok_count
              /\ frame_sum' = fresh_accumulators.frame_sum
              /\ frame_max' = fresh_accumulators.frame_max
              /\ trial' = 0
              /\ trial_frames' = <<>>
         ELSE UNCHANGED <<ok_count, frame_sum, frame_max, trial, trial_frames>>
    /\ UNCHANGED <<frame_us, slotVars, frameVars, partVars>>

\* lines 140-161: the report printed from results
Report ==
    /\ pc = "report"
    /\ pc' = "done"
    /\ UNCHANGED <<total, nodes, trial, ok_count, frame_sum, frame_max, frame_us,
                   results, trial_frames, slotVars, frameVars, partVars>>

Next == Trial \/ Aggregate \/ Report
Spec == RunInit /\ [][Next]_vars

(***************************************************************************)
(* Properties.                                                             *)
(***************************************************************************)
RECURSIVE SeqSum(_)
SeqSum(s) == IF s = <<>> THEN 0 ELSE s[Len(s)] + SeqSum(SubSeq(s, 1, Len(s) - 1))

\* Largest element of a sequence of naturals, 0 for the empty one.
SeqMax(s) ==
    IF s = <<>> THEN 0
    ELSE CHOOSE m \in {s[i] : i \in 1..Len(s)} : \A i \in 1..Len(s) : s[i] <= m

\* Quotient rounded up, by remainder.
CeilDiv(a, b) == (a \div b) + (IF a % b = 0 THEN 0 ELSE 1)

Clamp(x, lo, hi) == IF x < lo THEN lo ELSE IF x > hi THEN hi ELSE x

\* Slot width from the named constants alone.
ReferenceSlotWidth(n) ==
    IF n = 0 THEN 0
    ELSE LET payload == TDMA_DATA_HEADER_SIZE
                        + TDMA_SAMPLES_PER_FRAME * n * TDMA_SENSOR_DATA_SIZE + 1
             symbols == CeilDiv((16 + 6) + 8 * (FRAME_OVERHEAD_BYTES + payload),
                                OFDM_N_DBPS)
         IN  Clamp(FIXED_OVERHEAD_US + OFDM_PREAMBLE_US + OFDM_SYMBOL_US * symbols
                     + OFDM_SIFS_US + OFDM_ACK_US,
                   TDMA_SLOT_MIN_WIDTH_US, 65535)

\* C1, as stated: for every non-negative sensor_count the value returned by
\* calculate_slot_width lies in [TDMA_SLOT_MIN_WIDTH_US, 0xFFFF].
C1_AllCountsInClampRange ==
    slot_pc = "return" =>
        /\ slot_width >= TDMA_SLOT_MIN_WIDTH_US
        /\ slot_width <= SLOT_WIDTH_MAX

\* C1, amended: for every sensor_count >= 1 the value returned by
\* calculate_slot_width lies in [TDMA_SLOT_MIN_WIDTH_US, 0xFFFF]; for
\* sensor_count = 0 it is 0, below the minimum.
C1_PositiveCountsInClampRange ==
    slot_pc = "return" =>
        IF sensor_count >= 1
        THEN /\ slot_width >= TDMA_SLOT_MIN_WIDTH_US
             /\ slot_width <= SLOT_WIDTH_MAX
        ELSE slot_width = 0

\* A count whose unclamped width exceeds 0xFFFF has been clamped.
C1_Witness ==
    /\ slot_pc = "return"
    /\ sensor_count >= 1
    /\ FIXED_OVERHEAD_US
         + airtime_us(ofdm_syms(ofdm_bits(payload_bytes(sensor_count)))) > SLOT_WIDTH_MAX
    /\ slot_width = SLOT_WIDTH_MAX

\* C2: calculate_slot_width returns the value of the reference operator
\* built from the named constants (0 for 0 sensors, else the clamped sum
\* with the symbol count rounded up), and the literal 326 is
\* 22 + 8 * FRAME_OVERHEAD_BYTES.
C2_AgreesWithReference ==
    /\ OFDM_FIXED_BITS = 22 + 8 * FRAME_OVERHEAD_BYTES
    /\ slot_pc = "return" =>
        /\ slot_width = ReferenceSlotWidth(sensor_count)
        /\ sensor_count = 0 => slot_width = 0
        /\ sensor_count > 0 =>
             ofdm_syms(ofdm_bits(payload_bytes(sensor_count))) * OFDM_N_DBPS
               >= ofdm_bits(payload_bytes(sensor_count))

\* A width strictly inside the clamp range whose bit count is no multiple
\* of the bits per symbol, so that the rounding direction shows.
C2_Witness ==
    /\ slot_pc = "return"
    /\ sensor_count > 0
    /\ ofdm_bits(payload_bytes(sensor_count)) % OFDM_N_DBPS # 0
    /\ slot_width > TDMA_SLOT_MIN_WIDTH_US
    /\ slot_width < SLOT_WIDTH_MAX

\* Sum of the slot widths of s[1..n], from the last element down.
RECURSIVE SlotWidthSum(_, _)
SlotWidthSum(s, n) ==
    IF n = 0 THEN 0 ELSE SlotWidthSum(s, n - 1) + calculate_slot_width(s[n])

\* C3: calculate_frame_time returns the beacon duration for the empty
\* sequence and otherwise beacon + first-slot gap + the sum of the slot
\* widths + (node_count - 1) inter-slot gaps + guard time.
C3_FrameTimeFormula ==
    last_op # "none" =>
        IF Len(sensor_counts) = 0
        THEN frame_time = TDMA_BEACON_DURATION_US
        ELSE frame_time = TDMA_BEACON_DURATION_US + TDMA_FIRST_SLOT_GAP_US
                          + SlotWidthSum(sensor_counts, Len(sensor_counts))
                          + (Len(sensor_counts) - 1) * INTER_SLOT_GAP_US
                          + TDMA_GUARD_TIME_US

\* A frame of several nodes, one without sensors and one above the minimum
\* slot width.
C3_Witness ==
    /\ last_op = "call"
    /\ Len(sensor_counts) >= 2
    /\ \E i \in 1..Len(sensor_counts) : sensor_counts[i] = 0
    /\ \E i \in 1..Len(sensor_counts) :
         calculate_slot_width(sensor_counts[i]) > TDMA_SLOT_MIN_WIDTH_US

\* C4: for 1 <= parts <= total, random_partition returns exactly parts
\* counts, each in [1, total], that sum to total.
C4_PartitionValid ==
    (part_pc = "return" /\ 1 <= parts /\ parts <= part_total) =>
        /\ Len(counts) = parts
        /\ SeqSum(counts) = part_total
        /\ \A i \in 1..Len(counts) : counts[i] >= 1 /\ counts[i] <= part_total

\* A partition into several unequal parts.
C4_Witness ==
    /\ part_pc = "return"
    /\ parts >= 3
    /\ parts < part_total
    /\ \E i, j \in 1..Len(counts) : counts[i] < counts[j]

ValidPair(t, n) == t >= 1 /\ n >= 1 /\ n <= MAX_NODES /\ n <= t

\* C5: run() samples partitions only for pairs with total >= 1 and
\* 1 <= nodes <= min(MAX_NODES, total), a request random.sample accepts,
\* and every row of results belongs to such a pair.
C5_ValidPairsOnly ==
    /\ pc = "trials" => ValidPair(total, nodes) /\ ~sample_raises(total, nodes)
    /\ \A i \in 1..Len(results) :
         ValidPair(results[i].total_sensors, results[i].node_count)

\* A partition has been sampled at the edge nodes = total = MAX_NODES.
C5_Witness ==
    /\ pc = "trials"
    /\ trial >= 1
    /\ nodes = total
    /\ total = MAX_NODES

\* C6, as stated: after the trials of total = 16, nodes = 1 the ok rate is
\* below 1.0 or some frame time exceeded the frame period.
C6_SingleNode16Infeasible ==
    (pc = "trials" /\ total = 16 /\ nodes = 1 /\ trial = RANDOM_DISTRIBUTIONS) =>
        \/ ok_count < RANDOM_DISTRIBUTIONS
        \/ frame_max > TDMA_FRAME_PERIOD_US

\* C6, amended: every trial of total = 16, nodes = 1 has a frame time of
\* 6774 us, within the frame period of 20000 us, and after the trials the
\* ok rate is 1.0.
C6_SingleNode16Feasible ==
    (pc = "trials" /\ total = 16 /\ nodes = 1) =>
        /\ trial >= 1 => frame_us = 6774 /\ frame_us <= TDMA_FRAME_PERIOD_US
        /\ trial = RANDOM_DISTRIBUTIONS =>
             ok_count = RANDOM_DISTRIBUTIONS /\ frame_max = 6774

C6_Witness ==
    /\ pc = "trials"
    /\ total = 16
    /\ nodes = 1
    /\ trial = RANDOM_DISTRIBUTIONS
    /\ ok_count = trial

\* C7: a frame time computed after one element grew by one, or after a
\* node was appended, is not below the one computed before.
C7_FrameTimeMonotone ==
    last_op \in {"grow", "append"} => frame_time >= prev_frame_time

\* A node without sensors appended to the empty sequence.
C7_Witness ==
    /\ last_op = "append"
    /\ sensor_counts = <<0>>
    /\ prev_frame_time = TDMA_BEACON_DURATION_US

\* C8: for all 0 <= a <= b, calculate_slot_width(a) <= calculate_slot_width(b).
C8_SlotWidthMonotone ==
    slot_pc = "return" =>
        \A a \in 0..sensor_count : calculate_slot_width(a) <= slot_width

\* Two neighbouring counts in the saturated range.
C8_Witness ==
    /\ slot_pc = "return"
    /\ sensor_count >= 2
    /\ slot_width = SLOT_WIDTH_MAX
    /\ calculate_slot_width(sensor_count - 1) = SLOT_WIDTH_MAX

Bijections(n) ==
    {f \in [1..n -> 1..n] : \A i, j \in 1..n : f[i] = f[j] => i = j}

\* The accumulators after the trials of s, taken in order from fresh ones.
RECURSIVE Reduce(_)
Reduce(s) ==
    IF s = <<>> THEN fresh_accumulators
    ELSE accumulate(Reduce(SubSeq(s, 1, Len(s) - 1)), s[Len(s)])

\* C9: within a pair, ok_count is the number of trials so far with a frame
\* time <= the frame period, frame_sum their sum and frame_max their
\* maximum, all three are what any reordering of the same trials
\* accumulates, and they are zero when the pair has had no trial.
C9_OrderIndependentReduction ==
    pc = "trials" =>
        /\ Len(trial_frames) = trial
        /\ ok_count = Cardinality({i \in 1..trial :
                                     trial_frames[i] <= TDMA_FRAME_PERIOD_US})
        /\ frame_sum = SeqSum(trial_frames)
        /\ frame_max = SeqMax(trial_frames)
        /\ \A f \in Bijections(trial) :
             Reduce([i \in 1..trial |-> trial_frames[f[i]]])
               = [ok_count |-> ok_count, frame_sum |-> frame_sum,
                  frame_max |-> frame_max]

\* All trials of a later pair done, the largest frame time not the last.
C9_Witness ==
    /\ pc = "trials"
    /\ Len(results) >= 1
    /\ trial = RANDOM_DISTRIBUTIONS
    /\ trial_frames[trial] < frame_max

AllPairs == {<<t, n>> \in (1..MAX_TOTAL_SENSORS) \X (1..MAX_NODES) : n <= t}

\* C10: every trial of run() has a frame time <= the frame period exactly
\* when nodes <= 6; every row has an ok rate of 1.0 for node_count <= 6 and
\* of 0.0 for node_count in {7, 8}; and run() ends with one row for every
\* total in 1..16 and nodes in 1..min(8, total).
C10_FeasibleIffAtMostSixNodes ==
    /\ (pc = "trials" /\ trial >= 1) =>
         (frame_us <= TDMA_FRAME_PERIOD_US <=> nodes <= 6)
    /\ \A i \in 1..Len(results) :
         results[i].schedule_ok =
           IF results[i].node_count <= 6 THEN RANDOM_DISTRIBUTIONS ELSE 0
    /\ pc = "done" =>
         /\ Len(results) = Cardinality(AllPairs)
         /\ {<<results[i].total_sensors, results[i].node_count>> :
               i \in 1..Len(results)} = AllPairs

\* run() has ended with the rows of (6, 1), feasible, and (16, 8), not.
C10_Witness ==
    /\ pc = "done"
    /\ \E i \in 1..Len(results) :
         /\ results[i].total_sensors = 6
         /\ results[i].node_count = 1
         /\ results[i].schedule_ok = RANDOM_DISTRIBUTIONS
    /\ \E i \in 1..Len(results) :
         /\ results[i].total_sensors = 16
         /\ results[i].node_count = 8
         /\ results[i].schedule_ok = 0

====
